---- MODULE Spec2Model ----
(***************************************************************************)
(* LoLa web agent: the job runner (main.ts runJob and the Telegram         *)
(* handler's runJob), the per-chat session map, the conversation memory    *)
(* store and the bounded plan/act/observe loop behind graph.invoke.         *)
(*                                                                         *)
(* The sources of MemoryStore (src/memory), createGraph (src/agent) and    *)
(* BrowserController (src/browser) are not available; their behaviour is   *)
(* taken from the specification (sections 4.1, 4.3 and 3).                 *)
(***************************************************************************)
EXTENDS Integers, Sequences, FiniteSets, TLC

\* ---------------------------------------------------------------- bounds
\* chat identities that may send messages
NumIds == 2
\* recursionLimit passed to graph.invoke (60 in the source), scaled down
RecursionLimit == 2
\* capacity given to new MemoryStore(...) (50 in the source), scaled down
MemoryCapacity == 3
\* tool calls the planner may batch in one Think round
MaxBatch == 2
\* tasks handled in one run
MaxJobs == 2
\* inputs of one run: lines, messages, commands, requested tool calls, the
\* signal and injected faults together
MaxInputs == 4
\* the platform's message-size limit (4096 in the source) and the size of a
\* chunk (4000 in the source), scaled down with the responses
MessageLimit == 4
ChunkSize == 3
\* the longest response
MaxResponse == 6
\* the longest sequence graph.invoke resolves with, for runJob's return value
MaxResult == 3
\* the most frames a page has
MaxFrames == 2

Ids == 1..NumIds
JobIds == 1..MaxJobs
Handles == 1..NumIds

VARIABLES
  apiKey,     \* whether OPENAI_API_KEY is set in the environment
  proc,       \* the process: "running", "refused" (start-up failed), "closing"
              \* (SIGINT handler awaiting the browser's close), "exited", "crashed"
  mode,       \* "cli" or "telegram": main() branches on TELEGRAM_BOT_TOKEN
  sessions,   \* identity -> handle of its session's MemoryStore, 0 when absent
  nextStore,  \* next MemoryStore handle to construct
  stores,     \* handle -> the messages the MemoryStore holds
  jobs,       \* job id -> the state of that message handler and its runJob
  nextJob,    \* next job id
  inputs,     \* tasks, commands, tool calls, signals and injected faults so far
  history,    \* handle -> every message added since the last clear (history variable)
  lastAdd,    \* handle -> job whose addMessages was the store's last change, 0 if none
              \* (history variable)
  line,       \* CLI: how many lines were read, and the last of them (history variable)
  page,       \* the one page of the shared browser: the identity whose tool call
              \* acted on it last, 0 while none has
  out,        \* the last reply of a command handler: console.log in the CLI,
              \* sendMessage in Telegram
  response,   \* Telegram: the text runJob returned to the message handler
  sent,       \* Telegram: the messages the handler has sent for it, in order
  resolved,   \* runJob: the sequence graph.invoke resolved with
  returned,   \* runJob: whether it has returned, and the value it returned
  both,       \* the two runJob functions run side by side on the same inputs
  call,       \* a browser tool: the input its handler is called with
  ret         \* a browser tool: what the handler did and returned

vars == <<apiKey, proc, mode, sessions, nextStore, stores, jobs, nextJob, inputs,
          history, lastAdd, line, out, page, response, sent, resolved, returned,
          both, call, ret>>

\* the state of the return value and the reply of one task, and the rest
chunkVars == <<response, sent, resolved, returned, both, call, ret>>
mainVars == <<apiKey, proc, mode, sessions, nextStore, stores, jobs, nextJob, inputs,
              history, lastAdd, line, out, page>>

NoTurn == [role |-> "none", job |-> 0, n |-> 0, calls |-> 0, text |-> ""]

\* no browser tool is called
NoCall ==
  [tool |-> "none", frameIndex |-> 0, frames |-> 1, value |-> {}, label |-> {},
   element |-> "found"]
\* the handler has not run
NotCalled == [done |-> FALSE, text |-> "", acted |-> "none", thrown |-> FALSE]

\* runJob has not returned
NotReturned == [done |-> FALSE, content |-> ""]

\* neither runJob has been called
NotRun ==
  [done |-> FALSE, memory |-> <<>>, thrown |-> FALSE,
   cli |-> [memory |-> <<>>, added |-> FALSE, thrown |-> FALSE, returned |-> ""],
   tg |-> [memory |-> <<>>, added |-> FALSE, thrown |-> FALSE, returned |-> ""]]

IdleJob ==
  [pc |-> "idle", chat |-> 0, store |-> 0, previousCount |-> 0,
   messages |-> <<>>, loop |-> "none", steps |-> 0, pending |-> 0,
   inflight |-> FALSE, tool |-> "", limit |-> 0, appends |-> 0, errors |-> 0,
   cause |-> "none", reply |-> NoTurn, content |-> "", to |-> 0, after |-> 0,
   failedBefore |-> 0]

\* ------------------------------------------------------------ MemoryStore
\* getMessages(): the stored sequence
GetMessages(h) == stores[h]

\* getMessageCount()
GetMessageCount(h) == Len(stores[h])

\* mutation: main() constructs its store one message larger
CliCapacityRaised == MemoryCapacity + 1

\* const memoryStore = new MemoryStore(50) in main()
CliCapacity == MemoryCapacity

\* const memoryStore = new MemoryStore(50) in getOrCreateSession
TgCapacity == MemoryCapacity

\* the capacity the stores are constructed with in mode m
CapacityOf(m) == IF m = "cli" THEN CliCapacity ELSE TgCapacity

\* the capacity the stores of this process were constructed with
StoreCapacity == CapacityOf(mode)

\* addMessages(new) of a store of the given capacity: append in order, then
\* evict the oldest beyond the capacity
AddMessagesTo(capacity, msgs, new) ==
  LET all == msgs \o new
  IN  IF Len(all) > capacity
        THEN SubSeq(all, Len(all) - capacity + 1, Len(all))
        ELSE all

\* addMessages(new) of a store of this process
AddMessages(msgs, new) == AddMessagesTo(StoreCapacity, msgs, new)

\* clear()
ClearMessages == <<>>

\* --------------------------------------------------------------- sessions
\* mutation: every user is looked up under one key
SessionKeyShared(userId) == 1

\* the key getOrCreateSession looks a user up by
SessionKey(userId) == userId

\* ------------------------------------------------------------------ runJob
\* mutation: the new user message is put before the stored history
InitialUserFirst(previousMessages, userMessage) ==
  <<userMessage>> \o previousMessages

\* mutation: the job starts from the new user message alone
InitialWithoutHistory(previousMessages, userMessage) == <<userMessage>>

\* initial = { messages: [...previousMessages, userMessage] }
Initial(previousMessages, userMessage) == Append(previousMessages, userMessage)

\* mutation: the whole result is saved again
NewMessagesAll(result, previousCount) == result

\* mutation: nothing is saved
NewMessagesNone(result, previousCount) == <<>>

\* result.messages.slice(previousCount)
NewMessages(result, previousCount) ==
  SubSeq(result, previousCount + 1, Len(result))

\* const finalMsg = result.messages[result.messages.length - 1]: undefined
\* (NoTurn) when the sequence is empty
FinalMsg(result) ==
  IF Len(result) = 0 THEN NoTurn ELSE result[Len(result)]

\* the `text` of a message whose content is null or undefined
NoContent == "<no content>"

\* mutation: the content of the first message is returned
FinalContentFirst(result) ==
  IF Len(result) = 0 \/ result[1].text = NoContent THEN "" ELSE result[1].text

\* return finalMsg?.content ?? ""
FinalContent(result) ==
  LET finalMsg == FinalMsg(result)
  IN  IF finalMsg = NoTurn \/ finalMsg.text = NoContent THEN "" ELSE finalMsg.text

\* mutation: the limit handed to graph.invoke is one step too large
InvokeLimitRaised == RecursionLimit + 1

\* mutation: the limit handed to graph.invoke is one step too small
InvokeLimitLowered == RecursionLimit - 1

\* graph.invoke(initial, { recursionLimit: 60 })
InvokeLimit == RecursionLimit

\* TelegramBotHandler.runJob: initial = { messages: [...previousMessages, userMessage] }
TgInitial(previousMessages, userMessage) == Append(previousMessages, userMessage)

\* mutation: the chat runner saves the whole result again
TgNewMessagesAll(result, previousCount) == result

\* TelegramBotHandler.runJob: result.messages.slice(previousCount)
TgNewMessages(result, previousCount) ==
  SubSeq(result, previousCount + 1, Len(result))

\* TelegramBotHandler.runJob: return finalMsg?.content ?? ""
TgFinalContent(result) ==
  LET finalMsg == FinalMsg(result)
  IN  IF finalMsg = NoTurn \/ finalMsg.text = NoContent THEN "" ELSE finalMsg.text

\* TelegramBotHandler.runJob: graph.invoke(initial, { recursionLimit: 60 })
TgInvokeLimit == RecursionLimit

\* runJob of mode m up to its await of graph.invoke: main's runJob in the CLI,
\* TelegramBotHandler.runJob in Telegram
RunJobStart(m, previousMessages, userMessage) ==
  [previousCount |-> Len(previousMessages),
   initial |-> IF m = "cli" THEN Initial(previousMessages, userMessage)
                            ELSE TgInitial(previousMessages, userMessage),
   limit |-> IF m = "cli" THEN InvokeLimit ELSE TgInvokeLimit]

\* runJob of mode m after graph.invoke resolved with `result`: the messages
\* the store holds afterwards, whether addMessages was called, and the value
\* returned
RunJobEnd(m, memory, previousCount, result) ==
  LET newMessages == IF m = "cli" THEN NewMessages(result, previousCount)
                                  ELSE TgNewMessages(result, previousCount)
      add == Len(newMessages) > 0
  IN  [memory |-> IF add THEN AddMessagesTo(CapacityOf(m), memory, newMessages)
                         ELSE memory,
       added |-> add,
       thrown |-> FALSE,
       returned |-> IF m = "cli" THEN FinalContent(result)
                                 ELSE TgFinalContent(result)]

\* runJob of mode m when graph.invoke rejects: the await is in no try, the
\* rejection propagates to the caller and addMessages is not reached
RunJobThrows(m, memory) ==
  [memory |-> memory, added |-> FALSE, thrown |-> TRUE, returned |-> ""]

\* a message created by job j as the next one of its sequence
NewTurn(j, role, calls) ==
  [role |-> role, job |-> j,
   n |-> Len(jobs[j].messages) - jobs[j].previousCount + 1, calls |-> calls,
   text |-> ""]

\* the tool-result message the Act stage appends for one tool call
NewResult(j, text) == [NewTurn(j, "tool", 0) EXCEPT !.text = text]

\* ------------------------------------------------------------ browser tools
\* the names createBrowserTools returns (two of the 32: browser_goto, whose
\* handler has no try/catch, as have those of browser_right_click,
\* browser_type, browser_wait and browser_hover; browser_click, whose handler
\* wraps its page action in one)
Registry == {"browser_goto", "browser_click"}

\* what the planner may ask for: a registered name or one that is not
Requested == Registry \cup {"browser_fly"}

\* the handlers whose page action sits inside try { ... } catch { return "ERROR..." }
Guarded == {"browser_click"}

\* what can go wrong in a handler: browserController.ensure() rejects, or the
\* page action rejects (navigation timeout, selector not found)
Failures == {"browser", "action"}

\* the handler of tool `name` under failure f: every handler awaits ensure()
\* outside any try; clickTool catches what its page action throws and returns
\* an error string; gotoTool has no try, so the rejection leaves the handler
Handler(name, f) ==
  IF f = "browser" THEN "throws"
  ELSE IF name \in Guarded THEN "error"
  ELSE "throws"

\* mutation: createLLM does not look at the key
CreateLLMUnchecked(key) == "llm"

\* createLLM(): throws when OPENAI_API_KEY is not set
CreateLLM(key) == IF ~key THEN "throws" ELSE "llm"

\* the process is launched: the environment has the API key or not, and the
\* Telegram token or not
Init ==
  /\ apiKey \in BOOLEAN
  /\ mode \in {"cli", "telegram"}
  /\ proc = "starting"
  /\ sessions = [i \in Ids |-> 0]
  /\ nextStore = 1
  /\ line = [n |-> 0, text |-> <<>>]
  /\ out = [to |-> 0, kind |-> "none", n |-> 0, prev |-> "none"]
  /\ response = <<>>
  /\ sent = <<>>
  /\ resolved = <<>>
  /\ returned = NotReturned
  /\ call = NoCall
  /\ ret = NotCalled
  /\ both = NotRun
  /\ stores = [h \in Handles |-> <<>>]
  /\ jobs = [j \in JobIds |-> IdleJob]
  /\ nextJob = 1
  /\ inputs = 0
  /\ history = [h \in Handles |-> <<>>]
  /\ lastAdd = [h \in Handles |-> 0]
  /\ page = 0

\* handlers run while the process is alive: until process.exit or a crash
Alive == proc \in {"running", "closing"}

\* the messages of a sequence that job j created
Produced(j, msgs) == SelectSeq(msgs, LAMBDA t : t.job = j)

\* jobs of this chat that have failed so far
Failed(chat) ==
  {i \in JobIds : jobs[i].pc = "errored" /\ jobs[i].cause # "send" /\ jobs[i].chat = chat}

\* runJob up to its await of graph.invoke, for job j on store h
StartRunJob(j, chat, h) ==
  LET previousMessages == GetMessages(h)
      userMessage == [role |-> "user", job |-> j, n |-> 1, calls |-> 0, text |-> ""]
      start == RunJobStart(mode, previousMessages, userMessage)
  IN  jobs' = [jobs EXCEPT ![j] =
        [IdleJob EXCEPT !.pc = "running", !.chat = chat, !.store = h,
           !.previousCount = start.previousCount,
           !.messages = start.initial,
           !.loop = "think", !.limit = start.limit, !.after = lastAdd[h],
           !.failedBefore = Cardinality(Failed(chat))]]

\* ------------------------------------------------------------ CLI lines
\* A line is a sequence of tokens: " " stands for a whitespace character, any
\* other token for a run of characters without whitespace.
Lines ==
  { <<>>, <<" ">>,
    <<"/clear">>, <<" ", "/reset", " ">>,
    <<"/memory">>, <<"/stats", " ">>,
    <<"/help">>,
    <<"go">>, <<"/clear", " ", "go">> }

RECURSIVE TrimStart(_)
TrimStart(l) == IF l # <<>> /\ Head(l) = " " THEN TrimStart(Tail(l)) ELSE l

RECURSIVE TrimEnd(_)
TrimEnd(l) ==
  IF l # <<>> /\ l[Len(l)] = " " THEN TrimEnd(SubSeq(l, 1, Len(l) - 1)) ELSE l

\* line.trim()
Trim(l) == TrimEnd(TrimStart(l))

\* a reply of a command handler to identity `to`, sent after the reply `o`;
\* `prev` tells whether the reply before it was that of a clear for the same
\* identity
ReplyAfter(o, to, kind, n) ==
  [to |-> to, kind |-> kind, n |-> n,
   prev |-> IF o.to = to /\ o.kind = "cleared" THEN "cleared" ELSE "none"]

Reply(to, kind, n) == ReplyAfter(out, to, kind, n)

\* CLI: await runJob(task, graph, memoryStore)
CliTask ==
  /\ nextJob <= MaxJobs
  /\ StartRunJob(nextJob, 1, sessions[1])
  /\ nextJob' = nextJob + 1
  /\ UNCHANGED <<chunkVars, page, out, apiKey, proc, mode, sessions, nextStore, stores, history, lastAdd>>

\* mutation: the command answers without emptying the store
CliClearKeeps ==
  /\ history' = [history EXCEPT ![sessions[1]] = <<>>]
  /\ lastAdd' = [lastAdd EXCEPT ![sessions[1]] = 0]
  /\ out' = Reply(1, "cleared", 0)
  /\ UNCHANGED <<chunkVars, page, stores, apiKey, proc, mode, sessions, nextStore, jobs, nextJob>>

\* CLI: memoryStore.clear(); console.log("Memory cleared")
CliClear ==
  /\ stores' = [stores EXCEPT ![sessions[1]] = ClearMessages]
  /\ history' = [history EXCEPT ![sessions[1]] = <<>>]
  /\ lastAdd' = [lastAdd EXCEPT ![sessions[1]] = 0]
  /\ out' = Reply(1, "cleared", 0)
  /\ UNCHANGED <<chunkVars, page, apiKey, proc, mode, sessions, nextStore, jobs, nextJob>>

\* CLI: console.log(`Messages in memory: ${memoryStore.getMessageCount()}`)
CliMemory ==
  /\ out' = Reply(1, "count", GetMessageCount(sessions[1]))
  /\ UNCHANGED <<chunkVars, page, apiKey, proc, mode, sessions, nextStore, stores, jobs, nextJob,
                 history, lastAdd>>

\* mutation: a command is recognised by its first word
CliLineByPrefix(l) ==
  /\ Alive
  /\ mode = "cli"
  /\ inputs < MaxInputs
  /\ line' = [n |-> line.n + 1, text |-> l]
  /\ inputs' = inputs + 1
  /\ LET task == Trim(l)
     IN  IF task = <<>>
           THEN UNCHANGED <<chunkVars, page, apiKey, proc, mode, sessions, nextStore, stores, jobs,
                            nextJob, history, lastAdd, out>>
         ELSE IF Head(task) \in {"/clear", "/reset"} THEN CliClear
         ELSE IF Head(task) \in {"/memory", "/stats"} THEN CliMemory
         ELSE CliTask

\* CLI: rl.on("line", async (line) => { ... }): the handler of one line
CliLine(l) ==
  /\ Alive
  /\ mode = "cli"
  /\ inputs < MaxInputs
  /\ line' = [n |-> line.n + 1, text |-> l]
  /\ inputs' = inputs + 1
  /\ LET task == Trim(l)
     IN  IF task = <<>>
           THEN UNCHANGED <<chunkVars, page, apiKey, proc, mode, sessions, nextStore, stores, jobs,
                            nextJob, history, lastAdd, out>>
         ELSE IF task = <<"/clear">> \/ task = <<"/reset">> THEN CliClear
         ELSE IF task = <<"/memory">> \/ task = <<"/stats">> THEN CliMemory
         ELSE CliTask

\* mutation: a session is constructed on every call
GetOrCreateSessionAlways(userId) ==
  [sessions |-> [sessions EXCEPT ![SessionKey(userId)] = nextStore],
   nextStore |-> nextStore + 1, handle |-> nextStore]

\* getOrCreateSession(userId): the session map and the store handle it yields;
\* has, set and get run without an await between them
GetOrCreateSession(userId) ==
  LET key == SessionKey(userId)
  IN  IF sessions[key] = 0
        THEN [sessions |-> [sessions EXCEPT ![key] = nextStore],
              nextStore |-> nextStore + 1, handle |-> nextStore]
        ELSE [sessions |-> sessions, nextStore |-> nextStore,
              handle |-> sessions[key]]

\* an awaited send of the bot resolves or rejects
Sends == {"ok", "rejects"}

\* a rejected send counts as one more input of the run
Faults(send) == IF send = "rejects" THEN 1 ELSE 0

\* await this.bot.sendMessage(...) / sendChatAction(...) in an async handler
\* outside any try: a rejection rejects the promise of the handler, which
\* nobody awaits, and the unhandled rejection ends the process (Node.js 15+)
AwaitSend(send) == IF send = "rejects" THEN "crashed" ELSE proc

\* Telegram texts, as sequences of tokens like the CLI's lines; the empty
\* sequence stands for a message without text
TgTexts ==
  { <<>>, <<"go">>, <<"/clear">>, <<"/memory">>, <<"/help">>, <<"go", "/clear">> }

\* the tokens whose first character is "/"
Slashed == {"/start", "/help", "/clear", "/reset", "/memory", "/stats"}

\* text?.startsWith("/")
StartsWithSlash(text) == text # <<>> /\ Head(text) \in Slashed

\* regexp.exec(message.text) of an onText registration whose pattern is the
\* alternation of `words`, not anchored: it matches anywhere in the text
TgMatches(text, words) == \E i \in 1..Len(text) : text[i] \in words

\* Telegram: one message arrives. The bot emits "message" and then calls the
\* callback of every onText registration whose pattern matches the text, in
\* the order of registration: /start, /help, /clear|/reset, /memory|/stats.
\* Each handler runs to its first await before the next one starts; `send`
\* is the outcome of the replies awaited by them.
\* the handlers a message with this text sets to work: the "message" listener
\* with a task or with its prompt for a text, and the onText callbacks whose
\* pattern matches
HandlersOf ==
  [text \in TgTexts |->
     [task |-> ~StartsWithSlash(text) /\ Trim(text) # <<>>,
      prompt |-> ~StartsWithSlash(text) /\ Trim(text) = <<>>,
      info |-> TgMatches(text, {"/start"}) \/ TgMatches(text, {"/help"}),
      clear |-> TgMatches(text, {"/clear", "/reset"}),
      memory |-> TgMatches(text, {"/memory", "/stats"})]]

\* the handlers the message with this text sets to work
Handlers(text) == HandlersOf[text]

TgText(chat, text, send) ==
  LET set == Handlers(text)
      task == set.task
      prompt == set.prompt
      info == set.info
      clear == set.clear
      memory == set.memory
      s == GetOrCreateSession(chat)
      o1 == IF prompt THEN ReplyAfter(out, chat, "prompt", 0) ELSE out
      o2 == IF info THEN ReplyAfter(o1, chat, "info", 0) ELSE o1
      o3 == IF clear THEN ReplyAfter(o2, chat, "cleared", 0) ELSE o2
      cleared == [stores EXCEPT ![s.handle] = ClearMessages]
      o4 == IF memory
              THEN ReplyAfter(o3, chat, "count",
                              IF clear THEN Len(cleared[s.handle])
                                       ELSE GetMessageCount(s.handle))
              ELSE o3
      \* every handler the message sets to work counts as one input
      one(b) == IF b THEN 1 ELSE 0
      work == one(task) + one(prompt) + one(info) + one(clear) + one(memory)
      cost == (IF work = 0 THEN 1 ELSE work) + Faults(send)
  IN  /\ Alive
      /\ mode = "telegram"
      /\ inputs < MaxInputs
      /\ inputs + cost <= MaxInputs
      /\ send = "rejects" => prompt \/ info \/ clear \/ memory
      /\ task => nextJob <= MaxJobs
      /\ jobs' = IF task
                   THEN [jobs EXCEPT ![nextJob] =
                           [IdleJob EXCEPT !.pc = "typing", !.chat = chat]]
                   ELSE jobs
      /\ nextJob' = IF task THEN nextJob + 1 ELSE nextJob
      /\ sessions' = IF clear \/ memory THEN s.sessions ELSE sessions
      /\ nextStore' = IF clear \/ memory THEN s.nextStore ELSE nextStore
      /\ stores' = IF clear THEN cleared ELSE stores
      /\ history' = IF clear THEN [history EXCEPT ![s.handle] = <<>>] ELSE history
      /\ lastAdd' = IF clear THEN [lastAdd EXCEPT ![s.handle] = 0] ELSE lastAdd
      /\ out' = o4
      /\ proc' = AwaitSend(send)
      /\ inputs' = inputs + cost
      /\ UNCHANGED <<chunkVars, page, line, apiKey, mode>>

\* Telegram: sendChatAction rejects; the await is outside the handler's try,
\* so the handler ends there and the message is never run
TgTypingFails(j) ==
  /\ Alive
  /\ jobs[j].pc = "typing"
  /\ inputs < MaxInputs
  /\ jobs' = [jobs EXCEPT ![j] = [@ EXCEPT !.pc = "dropped"]]
  /\ proc' = AwaitSend("rejects")
  /\ inputs' = inputs + 1
  /\ UNCHANGED <<chunkVars, page, line, out, apiKey, mode, sessions, nextStore, stores, nextJob,
                 history, lastAdd>>

\* Telegram: the handler resumes, resolves the session and enters runJob
TgRunJob(j) ==
  /\ Alive
  /\ jobs[j].pc = "typing"
  /\ LET s == GetOrCreateSession(jobs[j].chat)
     IN  /\ sessions' = s.sessions
         /\ nextStore' = s.nextStore
         /\ StartRunJob(j, jobs[j].chat, s.handle)
  /\ UNCHANGED <<chunkVars, page, line, out, apiKey, proc, mode, stores, nextJob, inputs, history, lastAdd>>

\* ------------------------------------------------------------- step loop
\* Done is reached when the step counter reaches the configured limit
LimitReached(j) == jobs[j].steps >= jobs[j].limit

Thinking(j) == Alive /\ jobs[j].pc = "running" /\ jobs[j].loop = "think"

\* runJob after graph.invoke resolved with `result`, and the handler's reply
ReturnJob(j, result) ==
  LET h == jobs[j].store
      end == RunJobEnd(mode, stores[h], jobs[j].previousCount, result)
      add == end.added
  IN  /\ stores' = [stores EXCEPT ![h] = end.memory]
      /\ history' = [history EXCEPT ![h] = @ \o Produced(j, result)]
      /\ lastAdd' = [lastAdd EXCEPT ![h] = IF add THEN j ELSE @]
      /\ jobs' = [jobs EXCEPT ![j] =
           [@ EXCEPT !.pc = "replied", !.loop = "done", !.messages = result,
                     !.appends = @ + (IF add THEN 1 ELSE 0),
                     !.reply = FinalMsg(result),
                     !.content = end.returned,
                     !.to = jobs[j].chat]]

\* Think: the planner requests k tool invocations
PlannerTools(j, k) ==
  /\ Thinking(j)
  /\ ~LimitReached(j)
  /\ inputs + k <= MaxInputs
  /\ jobs' = [jobs EXCEPT ![j] =
       [@ EXCEPT !.messages = Append(@, NewTurn(j, "assistant", k)),
                 !.loop = "act", !.pending = k]]
  /\ inputs' = inputs + k
  /\ UNCHANGED <<chunkVars, page, line, out, apiKey, proc, mode, sessions, nextStore, stores, nextJob, history, lastAdd>>

\* Act: the next call of the batch names a registered tool; its handler starts
\* and obtains the page, const page = await browserController.ensure()
ToolBegin(j) ==
  /\ Alive
  /\ jobs[j].pc = "running"
  /\ jobs[j].loop = "act"
  /\ jobs[j].pending > 0
  /\ ~jobs[j].inflight
  /\ \E name \in Registry :
       jobs' = [jobs EXCEPT ![j] = [@ EXCEPT !.inflight = TRUE, !.tool = name]]
  /\ UNCHANGED <<chunkVars, page, line, out, apiKey, proc, mode, sessions, nextStore, stores, nextJob, inputs,
                 history, lastAdd>>

\* mutation: the step counter advances with every call of a batch
ObservePerCall(j, text) ==
  [jobs[j] EXCEPT !.messages = Append(@, NewResult(j, text)),
                  !.inflight = FALSE,
                  !.tool = "",
                  !.pending = @ - 1,
                  !.steps = @ + 1,
                  !.loop = IF jobs[j].pending = 1 THEN "think" ELSE "act"]

\* Observe: the text of one call is appended as a tool-result message; the
\* cycle ends, and the step counter advances, with the last call of the batch
Observe(j, text) ==
  [jobs[j] EXCEPT !.messages = Append(@, NewResult(j, text)),
                  !.inflight = FALSE,
                  !.tool = "",
                  !.pending = @ - 1,
                  !.steps = IF jobs[j].pending = 1 THEN @ + 1 ELSE @,
                  !.loop = IF jobs[j].pending = 1 THEN "think" ELSE "act"]

\* the result text of job j's running handler. browser_goto loads the page it
\* was asked for and reports its title; browser_click acts on the page as it
\* is, and its text tells of a page that a call of another identity acted on
\* last when there was one
ResultText(j) ==
  IF jobs[j].tool = "browser_click" /\ page \notin {0, jobs[j].chat}
    THEN "foreign"
    ELSE "ok"

\* the handler's action on the shared page completes and the handler returns
\* its result text; the page is now as this identity's action left it
ToolEnd(j) ==
  /\ Alive
  /\ jobs[j].pc = "running"
  /\ jobs[j].inflight
  /\ jobs' = [jobs EXCEPT ![j] = Observe(j, ResultText(j))]
  /\ page' = jobs[j].chat
  /\ UNCHANGED <<chunkVars, line, out, apiKey, proc, mode, sessions, nextStore, stores, nextJob, inputs,
                 history, lastAdd>>

\* mutation: a name that is not registered aborts the job
UnknownToolAborts(j) ==
  /\ Alive
  /\ jobs[j].pc = "running"
  /\ jobs[j].loop = "act"
  /\ jobs[j].pending > 0
  /\ ~jobs[j].inflight
  /\ inputs < MaxInputs
  /\ jobs' = [jobs EXCEPT ![j] =
       [@ EXCEPT !.pc = "errored", !.loop = "done", !.errors = @ + 1,
                 !.cause = "tool"]]
  /\ inputs' = inputs + 1
  /\ UNCHANGED <<chunkVars, page, line, out, apiKey, proc, mode, sessions, nextStore, stores, nextJob, history, lastAdd>>

\* Act: the next call of the batch names a tool that is not registered: no
\* handler runs, the Act stage appends an error observation
UnknownTool(j) ==
  /\ Alive
  /\ jobs[j].pc = "running"
  /\ jobs[j].loop = "act"
  /\ jobs[j].pending > 0
  /\ ~jobs[j].inflight
  /\ inputs < MaxInputs
  /\ \E name \in Requested \ Registry :
       jobs' = [jobs EXCEPT ![j] = Observe(j, "unknown")]
  /\ inputs' = inputs + 1
  /\ UNCHANGED <<chunkVars, page, line, out, apiKey, proc, mode, sessions, nextStore, stores, nextJob, history, lastAdd>>

\* Think: the planner returns a final answer; graph.invoke resolves
PlannerFinal(j) ==
  /\ Thinking(j)
  /\ ~LimitReached(j)
  /\ ReturnJob(j, Append(jobs[j].messages, NewTurn(j, "assistant", 0)))
  /\ UNCHANGED <<chunkVars, page, line, out, apiKey, proc, mode, sessions, nextStore, nextJob, inputs>>

\* the step counter reached the limit: graph.invoke resolves with the
\* messages so far
StepLimit(j) ==
  /\ Thinking(j)
  /\ LimitReached(j)
  /\ ReturnJob(j, jobs[j].messages)
  /\ UNCHANGED <<chunkVars, page, line, out, apiKey, proc, mode, sessions, nextStore, nextJob, inputs>>

\* mutation: the catch swallows the error without reporting it
CliCatchSilent(job) == [job EXCEPT !.pc = "errored", !.loop = "done"]

\* CLI: catch (e) { console.error("Job error:", ...) }
CliCatch(job) ==
  [job EXCEPT !.pc = "errored", !.loop = "done", !.errors = @ + 1, !.to = job.chat]

\* mutation: the catch logs the error and sends nothing to the chat
TgCatchSilent(job) == [job EXCEPT !.pc = "errored", !.loop = "done"]

\* Telegram: catch (e) { logger.error(...); await this.bot.sendMessage(chatId, "Error: ...") }
TgCatch(job) ==
  [job EXCEPT !.pc = "errored", !.loop = "done", !.errors = @ + 1, !.to = job.chat]

\* graph.invoke rejects: runJob rejects without reaching addMessages, the
\* handler's catch reports the error
Rejected(j, cause) ==
  [(IF mode = "cli" THEN CliCatch(jobs[j]) ELSE TgCatch(jobs[j]))
     EXCEPT !.cause = cause, !.inflight = FALSE, !.tool = ""]

\* the planner call throws
PlannerThrows(j) ==
  /\ Thinking(j)
  /\ ~LimitReached(j)
  /\ inputs < MaxInputs
  /\ jobs' = [jobs EXCEPT ![j] = Rejected(j, "planner")]
  /\ inputs' = inputs + 1
  /\ UNCHANGED <<chunkVars, page, line, out, apiKey, proc, mode, sessions, nextStore, stores, nextJob,
                 history, lastAdd>>

\* the running handler of a tool fails with failure f. A guarded page action
\* returns an error string, observed like any result. Otherwise the rejection
\* leaves the handler, and what the loop does with it is not in this
\* repository's sources: it either turns it into an observation of its own or
\* lets graph.invoke reject
ToolFails(j, f) ==
  /\ Alive
  /\ jobs[j].pc = "running"
  /\ jobs[j].inflight
  /\ inputs < MaxInputs
  /\ \/ /\ Handler(jobs[j].tool, f) = "error"
        /\ jobs' = [jobs EXCEPT ![j] = Observe(j, "error")]
     \/ /\ Handler(jobs[j].tool, f) = "throws"
        /\ \/ jobs' = [jobs EXCEPT ![j] = Observe(j, "raised")]
           \/ jobs' = [jobs EXCEPT ![j] = Rejected(j, "tool")]
  /\ inputs' = inputs + 1
  /\ UNCHANGED <<chunkVars, page, line, out, apiKey, proc, mode, sessions, nextStore, stores, nextJob, history, lastAdd>>

\* Telegram: a sendMessage of the reply rejects inside the try: the catch logs
\* the error and sends the error message, after runJob has saved the job's
\* messages
TgReplyFails(j) ==
  /\ Alive
  /\ mode = "telegram"
  /\ jobs[j].pc = "replied"
  /\ inputs < MaxInputs
  /\ jobs' = [jobs EXCEPT ![j] = [TgCatch(@) EXCEPT !.cause = "send"]]
  /\ inputs' = inputs + 1
  /\ UNCHANGED <<chunkVars, page, line, out, apiKey, proc, mode, sessions, nextStore, stores,
                 nextJob, history, lastAdd>>

\* Telegram: the sendMessage of the error message, inside the catch, rejects
TgErrorSendFails(j) ==
  /\ Alive
  /\ mode = "telegram"
  /\ jobs[j].pc = "errored"
  /\ inputs < MaxInputs
  /\ proc' = AwaitSend("rejects")
  /\ inputs' = inputs + 1
  /\ UNCHANGED <<chunkVars, page, line, out, apiKey, mode, sessions, nextStore, stores, jobs,
                 nextJob, history, lastAdd>>

\* main(): both branches call createLLM() (the CLI directly, Telegram in the
\* TelegramBotHandler constructor) before any handler is registered; a throw
\* reaches main().catch, which prints the error and calls process.exit(1).
\* Otherwise the CLI constructs its MemoryStore and registers the line
\* handler, Telegram registers its handlers and starts with no session
Start ==
  /\ proc = "starting"
  /\ IF CreateLLM(apiKey) = "throws"
       THEN /\ proc' = "refused"
            /\ UNCHANGED <<sessions, nextStore>>
       ELSE /\ proc' = "running"
            /\ sessions' = [i \in Ids |-> IF mode = "cli" /\ i = 1 THEN 1 ELSE 0]
            /\ nextStore' = IF mode = "cli" THEN 2 ELSE 1
  /\ UNCHANGED <<chunkVars, page, line, out, apiKey, mode, stores, jobs, nextJob, inputs,
                 history, lastAdd>>

\* SIGINT: the handler starts closing the browser,
\* await browserController.close() (Telegram: await telegramBot.stop(), whose
\* first step is that same close; stopPolling comes after it)
Signal ==
  /\ proc = "running"
  /\ inputs < MaxInputs
  /\ proc' = "closing"
  /\ inputs' = inputs + 1
  /\ UNCHANGED <<chunkVars, page, line, out, apiKey, mode, sessions, nextStore, stores, jobs, nextJob,
                 history, lastAdd>>

\* the close completed: process.exit(0)
Exit ==
  /\ proc = "closing"
  /\ proc' = "exited"
  /\ UNCHANGED <<chunkVars, page, line, out, apiKey, mode, sessions, nextStore, stores, jobs, nextJob,
                 inputs, history, lastAdd>>

\* the chats a message can come from. The code uses a chat id only as a key
\* of the sessions Map, so chats are numbered in the order of their first
\* message: a chat not heard of yet is the lowest unused id
Seen(chat) == sessions[chat] # 0 \/ \E j \in JobIds : jobs[j].chat = chat

Chats == {chat \in Ids : \A earlier \in 1..(chat - 1) : Seen(earlier)}

Next ==
  \/ Start
  \/ Signal
  \/ Exit
  \/ \E l \in Lines : CliLine(l)
  \/ \E chat \in Chats, text \in TgTexts, send \in Sends : TgText(chat, text, send)
  \/ \E j \in JobIds : TgRunJob(j)
  \/ \E j \in JobIds : TgTypingFails(j)
  \/ \E j \in JobIds : TgReplyFails(j)
  \/ \E j \in JobIds : TgErrorSendFails(j)
  \/ \E j \in JobIds, k \in 1..MaxBatch : PlannerTools(j, k)
  \/ \E j \in JobIds : ToolBegin(j)
  \/ \E j \in JobIds : ToolEnd(j)
  \/ \E j \in JobIds : UnknownTool(j)
  \/ \E j \in JobIds, f \in Failures : ToolFails(j, f)
  \/ \E j \in JobIds : PlannerFinal(j)
  \/ \E j \in JobIds : StepLimit(j)
  \/ \E j \in JobIds : PlannerThrows(j)

Spec == Init /\ [][Next]_vars

\* a step of job j's handler: every planner call and tool call it awaits completes
JobStep(j) ==
  \/ TgRunJob(j)
  \/ \E k \in 1..MaxBatch : PlannerTools(j, k)
  \/ ToolBegin(j)
  \/ ToolEnd(j)
  \/ PlannerFinal(j)
  \/ StepLimit(j)
  \/ PlannerThrows(j)

FairSpec == Spec /\ WF_vars(\E j \in JobIds : JobStep(j))

\* ------------------------------------------------------------ long replies
\* A response is a sequence of characters; "a" stands for any character that
\* is not a line terminator.
Chars == {"a", "\n"}

\* the characters the regular expression's . does not match
LineTerminators == {"\n"}

RECURSIVE SeqsUpTo(_)
SeqsUpTo(n) ==
  IF n = 0 THEN {<<>>}
  ELSE LET shorter == SeqsUpTo(n - 1)
       IN  shorter \cup {Append(r, c) : r \in {x \in shorter : Len(x) = n - 1}, c \in Chars}

Responses == SeqsUpTo(MaxResponse)

\* response.match(/.{1,4000}/g): scanning from the left, each match takes as
\* many characters as it can, at least one and at most ChunkSize, none of them
\* a line terminator; a position where no match starts is skipped. `cur` is
\* the match being taken, `acc` the matches found
RECURSIVE MatchFrom(_, _, _, _)
MatchFrom(r, i, cur, acc) ==
  IF i > Len(r) THEN (IF cur = <<>> THEN acc ELSE Append(acc, cur))
  ELSE IF r[i] \in LineTerminators
         THEN MatchFrom(r, i + 1, <<>>, IF cur = <<>> THEN acc ELSE Append(acc, cur))
  ELSE IF Len(cur) + 1 = ChunkSize
         THEN MatchFrom(r, i + 1, <<>>, Append(acc, Append(cur, r[i])))
  ELSE MatchFrom(r, i + 1, Append(cur, r[i]), acc)

\* response.match(/.{1,4000}/g) || []
Match(r) == MatchFrom(r, 1, <<>>, <<>>)

\* "\n\n_(continued...)_", counted as one character of the scaled limit
Marker == <<"_(continued...)_">>

\* the messages the handler sends for a response, each with the part of the
\* response it carries
Messages(r) ==
  IF Len(r) > MessageLimit
    THEN LET chunks == Match(r)
         IN  [i \in 1..Len(chunks) |->
               [payload |-> chunks[i],
                text |-> chunks[i] \o (IF i < Len(chunks) THEN Marker ELSE <<>>)]]
    ELSE <<[payload |-> r, text |-> r]>>

\* runJob returned a response to the message handler
ChunkInit ==
  /\ apiKey = TRUE
  /\ proc = "running"
  /\ mode = "telegram"
  /\ sessions = [i \in Ids |-> 0]
  /\ nextStore = 1
  /\ line = [n |-> 0, text |-> <<>>]
  /\ out = [to |-> 0, kind |-> "none", n |-> 0, prev |-> "none"]
  /\ stores = [h \in Handles |-> <<>>]
  /\ jobs = [j \in JobIds |-> IdleJob]
  /\ nextJob = 1
  /\ inputs = 0
  /\ history = [h \in Handles |-> <<>>]
  /\ lastAdd = [h \in Handles |-> 0]
  /\ page = 0
  /\ response \in Responses
  /\ sent = <<>>
  /\ resolved = <<>>
  /\ returned = NotReturned
  /\ call = NoCall
  /\ ret = NotCalled
  /\ both = NotRun

\* await this.bot.sendMessage(chatId, ...): the next message of the reply
SendNext ==
  /\ Len(sent) < Len(Messages(response))
  /\ sent' = Append(sent, Messages(response)[Len(sent) + 1])
  /\ UNCHANGED <<mainVars, response, resolved, returned, both, call, ret>>

ChunkNext == SendNext

ChunkSpec == ChunkInit /\ [][ChunkNext]_vars

\* ------------------------------------------------- runJob's return value
\* the contents a message may carry: none, the empty text, a text
Contents == {NoContent, "", "done"}

\* the messages of a sequence graph.invoke resolves with
Turns == [role : {"assistant", "tool"}, job : {1}, n : {1}, calls : {0}, text : Contents]

\* the sequences graph.invoke may resolve with
Results == UNION {[1..k -> Turns] : k \in 0..MaxResult}

ReturnInit ==
  /\ apiKey = TRUE
  /\ proc = "running"
  /\ mode = "cli"
  /\ sessions = [i \in Ids |-> 0]
  /\ nextStore = 1
  /\ line = [n |-> 0, text |-> <<>>]
  /\ out = [to |-> 0, kind |-> "none", n |-> 0, prev |-> "none"]
  /\ stores = [h \in Handles |-> <<>>]
  /\ jobs = [j \in JobIds |-> IdleJob]
  /\ nextJob = 1
  /\ inputs = 0
  /\ history = [h \in Handles |-> <<>>]
  /\ lastAdd = [h \in Handles |-> 0]
  /\ page = 0
  /\ response = <<>>
  /\ sent = <<>>
  /\ resolved \in Results
  /\ returned = NotReturned
  /\ call = NoCall
  /\ ret = NotCalled
  /\ both = NotRun

\* runJob's last statements, once graph.invoke has resolved
Return ==
  /\ ~returned.done
  /\ returned' = [done |-> TRUE, content |-> FinalContent(resolved)]
  /\ UNCHANGED <<mainVars, response, sent, resolved, both, call, ret>>

ReturnNext == Return

ReturnSpec == ReturnInit /\ [][ReturnNext]_vars

\* ------------------------------------------------- the two runJob functions
\* messages of earlier jobs, as a memory may hold them
Earlier(k) == [role |-> "assistant", job |-> 0, n |-> k, calls |-> 0, text |-> "old"]

\* the memory contents a job may start from: empty up to full
Memories == {[i \in 1..k |-> Earlier(i)] : k \in 0..MemoryCapacity}

\* the inputs of the comparison: the memory, what the step loop produced after
\* the job's input, and whether graph.invoke rejected instead
EquivInit ==
  /\ apiKey = TRUE
  /\ proc = "running"
  /\ mode = "cli"
  /\ sessions = [i \in Ids |-> 0]
  /\ nextStore = 1
  /\ line = [n |-> 0, text |-> <<>>]
  /\ out = [to |-> 0, kind |-> "none", n |-> 0, prev |-> "none"]
  /\ stores = [h \in Handles |-> <<>>]
  /\ jobs = [j \in JobIds |-> IdleJob]
  /\ nextJob = 1
  /\ inputs = 0
  /\ history = [h \in Handles |-> <<>>]
  /\ lastAdd = [h \in Handles |-> 0]
  /\ page = 0
  /\ response = <<>>
  /\ sent = <<>>
  /\ resolved \in Results
  /\ returned = NotReturned
  /\ call = NoCall
  /\ ret = NotCalled
  /\ \E m \in Memories, t \in BOOLEAN :
       both = [NotRun EXCEPT !.memory = m, !.thrown = t]

\* runJob of mode m, called with the user text on a store that holds `memory`,
\* its graph.invoke resolving with the job's input followed by `produced`, or
\* rejecting
RunJob(m, memory, produced, thrown) ==
  LET userMessage == [role |-> "user", job |-> 1, n |-> 1, calls |-> 0, text |-> ""]
      start == RunJobStart(m, memory, userMessage)
  IN  IF thrown THEN RunJobThrows(m, memory)
      ELSE RunJobEnd(m, memory, start.previousCount, start.initial \o produced)

\* both functions are called with the same inputs
RunBoth ==
  /\ ~both.done
  /\ both' = [both EXCEPT !.done = TRUE,
                          !.cli = RunJob("cli", both.memory, resolved, both.thrown),
                          !.tg = RunJob("telegram", both.memory, resolved, both.thrown)]
  /\ UNCHANGED <<mainVars, response, sent, resolved, returned, call, ret>>

EquivNext == RunBoth

EquivSpec == EquivInit /\ [][EquivNext]_vars

\* ------------------------------------------------------------ properties
Running(j) == jobs[j].pc = "running"
Terminal(j) == jobs[j].pc \in {"replied", "errored"}
Started(j) == Running(j) \/ Terminal(j)
\* runJob rejected: the planner or the loop threw
JobFailed(j) == jobs[j].pc = "errored" /\ jobs[j].cause # "send"
\* runJob returned (the reply may have failed to send afterwards)
JobCompleted(j) ==
  jobs[j].pc = "replied" \/ (jobs[j].pc = "errored" /\ jobs[j].cause = "send")

\* Think rounds of job j that requested tools (its Think/Act/Observe cycles)
Cycles(j) ==
  Cardinality({i \in 1..Len(jobs[j].messages) :
                 /\ jobs[j].messages[i].job = j
                 /\ jobs[j].messages[i].role = "assistant"
                 /\ jobs[j].messages[i].calls > 0})

\* job j's planner never gave a final answer
NoFinal(j) ==
  \A i \in 1..Len(jobs[j].messages) :
    ~(/\ jobs[j].messages[i].job = j
      /\ jobs[j].messages[i].role = "assistant"
      /\ jobs[j].messages[i].calls = 0)

LastOf(seq) == seq[Len(seq)]

\* C1: whatever the planner answers, a job performs at most RecursionLimit
\* Think/Act/Observe cycles, and every job that entered the loop terminates:
\* given that the planner and tool calls it awaits complete, the run reaches a
\* point from which no job of a living process is in the loop any more.
C1_BoundedRoundTrips ==
  /\ [](\A j \in JobIds : Cycles(j) <= RecursionLimit)
  /\ <>[](Alive => \A j \in JobIds : ~Running(j))

\* a job has terminated after RecursionLimit cycles
C1_Witness == \E j \in JobIds : Terminal(j) /\ Cycles(j) = RecursionLimit

\* C2: a job that reaches the step limit is not an error: a job whose planner
\* never gives a final answer (and never throws) ends after exactly
\* RecursionLimit cycles, replies with the content of the last message and has
\* persisted its delta; no job that completed all its cycles ends in the error
\* path.
C2_LimitIsNotAnError ==
  \A j \in JobIds :
    /\ (Terminal(j) /\ jobs[j].steps = RecursionLimit) =>
          /\ JobCompleted(j)
          /\ jobs[j].pc = "replied" => jobs[j].errors = 0
    /\ (jobs[j].pc = "replied" /\ NoFinal(j)) =>
          /\ Cycles(j) = RecursionLimit
          /\ jobs[j].reply = LastOf(jobs[j].messages)
          /\ jobs[j].reply.role = "tool"
          /\ jobs[j].appends = 1

\* a job whose planner never gave a final answer has replied
C2_Witness == \E j \in JobIds : jobs[j].pc = "replied" /\ NoFinal(j)

\* C3 (as claimed): every session has at most one job in flight.
C3_OneJobPerSession ==
  \A h \in Handles :
    Cardinality({j \in JobIds : Running(j) /\ jobs[j].store = h}) <= 1

\* C4 (as claimed): at most one tool action is in flight against the browser.
C4_OneToolInFlight ==
  Cardinality({j \in JobIds : jobs[j].inflight}) <= 1

\* the identity a message belongs to: that of the job that created it
Owner(t) == jobs[t.job].chat

\* C5: distinct identities have distinct memory stores, and every message in
\* an identity's store, and every message handed to the planner in one of its
\* jobs, was created in a job of that same identity.
C5_SessionIsolation ==
  /\ \A a, b \in Ids :
        (a # b /\ sessions[a] # 0 /\ sessions[b] # 0) => sessions[a] # sessions[b]
  /\ \A a \in Ids : sessions[a] # 0 =>
        \A i \in 1..Len(stores[sessions[a]]) : Owner(stores[sessions[a]][i]) = a
  /\ \A j \in JobIds : Started(j) =>
        \A i \in 1..Len(jobs[j].messages) : Owner(jobs[j].messages[i]) = jobs[j].chat

\* two identities have a session each, and each store holds messages
C5_Witness ==
  /\ \E a, b \in Ids :
        /\ a # b /\ sessions[a] # 0 /\ sessions[b] # 0
        /\ stores[sessions[a]] # <<>> /\ stores[sessions[b]] # <<>>

\* the newest n messages of a sequence (all of it when it is shorter)
Newest(seq, n) ==
  IF Len(seq) > n THEN SubSeq(seq, Len(seq) - n + 1, Len(seq)) ELSE seq

\* C6: a store never holds more messages than the capacity.
C6_MemoryBound ==
  \A h \in Handles : GetMessageCount(h) <= MemoryCapacity

\* a store is full after more messages than its capacity were added to it
C6_Witness ==
  \E h \in Handles :
    GetMessageCount(h) = MemoryCapacity /\ Len(history[h]) > MemoryCapacity

\* C7: a store holds exactly the newest messages of everything its jobs
\* produced since the last clear, in order: a contiguous suffix of the full
\* history, of length min(history length, capacity).
C7_FifoEviction ==
  \A h \in Handles : GetMessages(h) = Newest(history[h], MemoryCapacity)

\* two jobs produced two messages each, and the store dropped exactly the
\* first user message: [a1, u2, a2]
C7_Witness ==
  \E h \in Handles, a, b \in JobIds :
    /\ a # b
    /\ history[h] = Produced(a, history[h]) \o Produced(b, history[h])
    /\ Len(Produced(a, history[h])) = 2
    /\ Len(Produced(b, history[h])) = 2
    /\ Len(history[h]) = MemoryCapacity + 1
    /\ GetMessages(h) = SubSeq(history[h], 2, 4)
    /\ GetMessages(h)[1].role = "assistant"
    /\ GetMessages(h)[1].job = a
    /\ GetMessages(h)[2].role = "user"

\* the sequence first handed to job j's planner
InitialOf(j) == SubSeq(jobs[j].messages, 1, jobs[j].previousCount + 1)

NoDuplicates(seq) ==
  \A i, k \in 1..Len(seq) : i # k => seq[i] # seq[k]

\* seq ends with part followed by last
EndsWith(seq, part, last) ==
  /\ Len(seq) >= Len(part) + 1
  /\ SubSeq(seq, Len(seq) - Len(part), Len(seq) - 1) = part
  /\ seq[Len(seq)] = last

UserTurn(j) == [role |-> "user", job |-> j, n |-> 1, calls |-> 0, text |-> ""]

\* job b entered runJob when job a's addMessages was the store's last change
Consecutive(a, b) == Started(b) /\ jobs[b].after = a /\ a # 0

\* C8 (as claimed): the second of two consecutive jobs is handed every
\* message the first job produced, in order and without duplicates, followed
\* by its own user message.
C8_DeltaIsolationAll ==
  \A a, b \in JobIds : Consecutive(a, b) =>
    /\ EndsWith(InitialOf(b), Produced(a, jobs[a].messages), UserTurn(b))
    /\ NoDuplicates(InitialOf(b))

\* C8 (amended): the second job is handed the messages of the first job that
\* the store retained (the newest MemoryCapacity of them, all of them when
\* they fit), in order and without duplicates, followed by its own user message.
C8_DeltaIsolationRetained ==
  \A a, b \in JobIds : Consecutive(a, b) =>
    /\ EndsWith(InitialOf(b),
                Newest(Produced(a, jobs[a].messages), MemoryCapacity), UserTurn(b))
    /\ NoDuplicates(InitialOf(b))

\* a job ran right after a job whose messages did not all fit the store
C8_Witness ==
  \E a, b \in JobIds :
    /\ Consecutive(a, b)
    /\ Len(Produced(a, jobs[a].messages)) > MemoryCapacity
    /\ jobs[b].previousCount = MemoryCapacity

\* C9: a job that completed has called addMessages exactly once, a job that
\* failed (or is still running) never, and the step in which a job fails
\* leaves every store as it was.
C9_OneAppendOrNone ==
  /\ [](\A j \in JobIds :
          /\ JobCompleted(j) => jobs[j].appends = 1
          /\ ~JobCompleted(j) => jobs[j].appends = 0)
  /\ [][\A j \in JobIds :
          (Running(j) /\ jobs'[j].pc = "errored") => stores' = stores]_vars
  /\ [][\A j \in JobIds :
          (Running(j) /\ jobs'[j].pc = "replied") =>
             /\ stores'[jobs[j].store] =
                  AddMessages(stores[jobs[j].store], Produced(j, jobs'[j].messages))
             /\ \A h \in Handles \ {jobs[j].store} : stores'[h] = stores[h]]_vars

\* one job has completed and another has failed on a store that holds messages
C9_Witness ==
  \E a, b \in JobIds :
    /\ jobs[a].pc = "replied" /\ JobFailed(b)
    /\ jobs[a].store = jobs[b].store
    /\ jobs[b].previousCount > 0

\* the session an identity's messages are served by
SessionOf(chat) == sessions[SessionKey(chat)]

\* C10: a failed job reports exactly one error and no answer, the failing step
\* changes neither the session map nor any store, the identity keeps its
\* session, and a job of that identity that starts afterwards runs on that same
\* session as a normal job (it can complete, saving its delta and replying).
C10_ErrorLeavesSessionIntact ==
  /\ [](\A j \in JobIds :
          /\ JobFailed(j) =>
                /\ jobs[j].errors = 1
                /\ jobs[j].reply = NoTurn
                /\ SessionOf(jobs[j].chat) = jobs[j].store
          /\ jobs[j].pc # "errored" => jobs[j].errors = 0
          /\ (Started(j) /\ jobs[j].failedBefore > 0) =>
                /\ jobs[j].store = SessionOf(jobs[j].chat)
                /\ jobs[j].pc = "replied" =>
                      /\ jobs[j].appends = 1
                      /\ jobs[j].reply = LastOf(jobs[j].messages))
  /\ [][\A j \in JobIds :
          (Running(j) /\ jobs'[j].pc = "errored") =>
             /\ stores' = stores
             /\ sessions' = sessions
             /\ \A i \in JobIds \ {j} : jobs'[i] = jobs[i]]_vars

\* after a job of an identity failed, a later job of that identity completed
C10_Witness ==
  \E a, b \in JobIds :
    /\ JobFailed(a)
    /\ jobs[b].pc = "replied"
    /\ jobs[b].chat = jobs[a].chat
    /\ jobs[b].failedBefore > 0

\* C11 (as claimed): no tool ever propagates an exception to the loop: every
\* failure of a tool call ends as an error string the handler returned, and no
\* job is aborted by a tool call that failed.
C11_ToolErrorsContained ==
  \A j \in JobIds :
    /\ jobs[j].cause # "tool"
    /\ \A i \in 1..Len(jobs[j].messages) : jobs[j].messages[i].text # "raised"

\* C12: a call whose tool name is not registered gives an error observation
\* and the loop goes on. Whenever the Act stage moves on from a call it has
\* not dispatched, it either starts a handler or appends the unknown-tool
\* observation as a tool-result message; in the latter case the job stays in
\* the loop, no handler is in flight, the process and the stores are untouched,
\* and after the last call of the batch the loop is back at Think with one
\* more completed step.
C12_UnknownToolObserved ==
  [][\A j \in JobIds :
       (/\ Running(j) /\ jobs[j].loop = "act" /\ ~jobs[j].inflight
        /\ jobs'[j] # jobs[j]
        /\ ~jobs'[j].inflight) =>
          /\ jobs'[j].messages = Append(jobs[j].messages, NewResult(j, "unknown"))
          /\ jobs'[j].pc = "running"
          /\ jobs'[j].cause = "none"
          /\ jobs'[j].loop = IF jobs[j].pending = 1 THEN "think" ELSE "act"
          /\ jobs'[j].steps = jobs[j].steps + (IF jobs[j].pending = 1 THEN 1 ELSE 0)
          /\ jobs'[j].pending = jobs[j].pending - 1
          /\ proc' = proc
          /\ stores' = stores]_vars

\* a job that observed an unknown tool name went on and replied
C12_Witness ==
  \E j \in JobIds :
    /\ jobs[j].pc = "replied"
    /\ \E i \in 1..Len(jobs[j].messages) : jobs[j].messages[i].text = "unknown"

\* C13: at most one session is created per identity, and every resolve of an
\* identity yields that session: as many stores were constructed as there are
\* identities with a session, no two identities share one, and every job that
\* entered runJob, whenever it resolved its session, runs on the store its
\* identity's session holds now.
C13_SingleCreation ==
  /\ nextStore - 1 = Cardinality({chat \in Ids : sessions[chat] # 0})
  /\ \A a, b \in Ids : (a # b /\ sessions[a] # 0) => sessions[a] # sessions[b]
  /\ \A j \in JobIds : Started(j) => jobs[j].store = SessionOf(jobs[j].chat)

\* two handlers of one chat resolved its session while both jobs were in flight
C13_Witness ==
  /\ mode = "telegram"
  /\ \E a, b \in JobIds :
       a # b /\ Running(a) /\ Running(b) /\ jobs[a].chat = jobs[b].chat

RECURSIVE Concat(_)
Concat(msgs) ==
  IF msgs = <<>> THEN <<>> ELSE Head(msgs).payload \o Concat(Tail(msgs))

\* C15 (as claimed): once the handler has sent every message of a response
\* longer than the limit, each message sent is within the limit and the
\* payloads of the messages, in the order sent, make up the response.
C15_ChunksRebuildResponse ==
  (/\ Len(response) > MessageLimit
   /\ sent # <<>>
   /\ Len(sent) = Len(Messages(response))) =>
     /\ \A i \in 1..Len(sent) : Len(sent[i].text) <= MessageLimit
     /\ Concat(sent) = response

\* C16 (as claimed): a send to the chat platform that rejects, in a command
\* handler, in the task handler or while an error is reported, never ends the
\* process with an unhandled rejection.
C16_SendFailureContained == proc # "crashed"

\* C17: without the API key the process refuses to start, in both modes: it
\* is starting or has refused and never runs, no line, message or signal is
\* ever accepted, no job is created and no session or store exists.
C17_NoKeyNoStart ==
  ~apiKey =>
     /\ proc \in {"starting", "refused"}
     /\ inputs = 0 /\ line.n = 0 /\ out.kind = "none"
     /\ nextJob = 1 /\ \A j \in JobIds : jobs[j] = IdleJob
     /\ nextStore = 1 /\ \A chat \in Ids : sessions[chat] = 0

\* the Telegram bot was started without the key
C17_Witness == ~apiKey /\ mode = "telegram" /\ proc = "refused"

\* C18 (as claimed): once the termination signal has been received no new job
\* is started: while the signal handler is at work, no job whose input had not
\* arrived yet enters runJob.
C18_NoJobAfterSignal ==
  [][proc = "closing" =>
       \A j \in JobIds : jobs[j].pc = "idle" => jobs'[j].pc # "running"]_vars

\* what a line holds between its first and its last character that is not
\* whitespace
Content(l) ==
  LET solid == {i \in 1..Len(l) : l[i] # " "}
  IN  IF solid = {} THEN <<>>
      ELSE SubSeq(l, CHOOSE i \in solid : \A k \in solid : i <= k,
                     CHOOSE i \in solid : \A k \in solid : i >= k)

\* the CLI handled one more line in this step
LineRead == line'.n = line.n + 1

C20_CliHelpIsCommand ==
  [][(LineRead /\ Content(line'.text) = <<"/help">>) =>
       /\ jobs' = jobs /\ nextJob' = nextJob
       /\ stores' = stores]_vars

\* ------------------------------------------------- Telegram message handling
\* the message handler took a text as a task in this step: it starts job j
TaskTaken(j) == mode = "telegram" /\ jobs[j].pc = "idle" /\ jobs'[j].pc = "typing"

\* C21 (as claimed): in chat mode a text that the message handler takes as a
\* task is only a task: the step starts exactly one job, and no command
\* handler runs for it, so no memory is cleared, no session is touched and no
\* command reply is sent.
C21_TaskIsOnlyATask ==
  [][\A j \in JobIds :
       TaskTaken(j) =>
         /\ \A i \in JobIds \ {j} : jobs'[i] = jobs[i]
         /\ stores' = stores
         /\ sessions' = sessions
         /\ out' = out]_vars

\* ------------------------------------------------------ runJob's return value
\* C22: what runJob returns is the content of the last message of the
\* sequence the step loop returned, and the empty text when the sequence is
\* empty or that message has no content; no other message decides it.
C22_ReturnsLastContent ==
  returned.done =>
    returned.content =
      (IF resolved = <<>> THEN ""
       ELSE IF resolved[Len(resolved)].text = NoContent THEN ""
       ELSE resolved[Len(resolved)].text)

\* runJob returned the text of a last message that differs from the first's
C22_Witness ==
  /\ returned.done
  /\ Len(resolved) > 1
  /\ resolved[1].text = ""
  /\ resolved[Len(resolved)].text = "done"
  /\ returned.content = "done"

\* ------------------------------------------------------- the job's first input
\* job j enters runJob in this step
Enters(j) == ~Started(j) /\ jobs'[j].pc = "running"

\* C23: the sequence handed to the step loop is the memory's current
\* history, in its order, followed by exactly one new user message of this
\* job; building it leaves every memory store as it was.
C23_InitialIsHistoryThenTask ==
  [][\A j \in JobIds :
       Enters(j) =>
         LET h == jobs'[j].store
             initial == jobs'[j].messages
         IN  /\ Len(initial) = Len(stores[h]) + 1
             /\ SubSeq(initial, 1, Len(stores[h])) = stores[h]
             /\ initial[Len(initial)].role = "user"
             /\ initial[Len(initial)].job = j
             /\ jobs'[j].previousCount = Len(stores[h])
             /\ stores' = stores]_vars

\* a job has just entered runJob on a memory that holds earlier messages
C23_Witness ==
  \E j \in JobIds :
    /\ Running(j)
    /\ jobs[j].previousCount >= 2
    /\ Len(jobs[j].messages) = jobs[j].previousCount + 1
    /\ stores[jobs[j].store] = SubSeq(jobs[j].messages, 1, jobs[j].previousCount)

\* ------------------------------------------------------------ step counting
\* the Think/Act/Observe cycles job j has completed: its tool requests whose
\* every call has been answered by a tool-result message
CompletedCycles(j) ==
  LET m == jobs[j].messages
  IN  Cardinality({i \in 1..Len(m) :
                     /\ m[i].job = j
                     /\ m[i].role = "assistant"
                     /\ m[i].calls > 0
                     /\ i + m[i].calls <= Len(m)
                     /\ \A c \in 1..m[i].calls : m[i + c].role = "tool"})

\* C24: the step counter counts cycles, not tool calls: it equals the number
\* of completed Think/Act/Observe cycles however many calls each Think round
\* batched, so a job may complete as many full cycles as its limit says.
C24_StepsCountCycles ==
  \A j \in JobIds :
    /\ jobs[j].steps = CompletedCycles(j)
    /\ jobs[j].steps <= RecursionLimit

\* a job has completed RecursionLimit cycles, one of them a batch of several calls
C24_Witness ==
  \E j \in JobIds :
    /\ jobs[j].steps = RecursionLimit
    /\ CompletedCycles(j) = RecursionLimit
    /\ \E i \in 1..Len(jobs[j].messages) :
         jobs[j].messages[i].job = j /\ jobs[j].messages[i].calls > 1

\* ------------------------------------------------------- session lifecycle
\* the session of an identity is created in this step
Created(chat) == sessions[chat] = 0 /\ sessions'[chat] # 0

\* a handler of a message of this chat resolves its session in this step: the
\* message handler resuming after the typing action, or the handler of
\* /clear, /reset, /memory or /stats replying
Resolves(chat) ==
  \/ \E j \in JobIds :
       jobs[j].chat = chat /\ jobs[j].pc = "typing" /\ jobs'[j].pc = "running"
  \/ inputs' > inputs /\ out'.to = chat /\ out'.kind \in {"cleared", "count"}

\* C25 (as claimed): a chat's session is created on the first message of a new
\* identity: when it is created, nothing was sent to that chat before.
C25_CreatedOnFirstMessage ==
  [][\A chat \in Ids :
       (mode = "telegram" /\ Created(chat)) => out.to # chat]_vars

\* C25 (amended): a session is created only while a message of an identity
\* that has no session yet is handled (a task, /clear, /reset, /memory or
\* /stats; not necessarily the identity's first message, /start and /help
\* create none), or at start-up for the CLI's single session; it gets a fresh,
\* empty store; once registered an identity keeps its session unchanged, so
\* the set of registered identities only grows.
C25_SessionsOnlyGrow ==
  [][\A chat \in Ids :
       /\ sessions[chat] # 0 => sessions'[chat] = sessions[chat]
       /\ Created(chat) =>
            /\ sessions'[chat] = nextStore
            /\ nextStore' = nextStore + 1
            /\ stores'[nextStore] = <<>>
            /\ \A other \in Ids \ {chat} : sessions'[other] = sessions[other]
            /\ IF mode = "cli" THEN proc = "starting" /\ chat = 1
                               ELSE Resolves(chat)]_vars

\* two chats are registered, and the session of one has outlived a /clear
\* and a completed job
C25_Witness ==
  /\ mode = "telegram"
  /\ \A chat \in Ids : sessions[chat] # 0
  /\ out.kind = "cleared"
  /\ \E j \in JobIds : JobCompleted(j) /\ jobs[j].chat = out.to

\* ------------------------------------------------------ what changes a memory
\* job j's runJob returns in this step
Returns(j) == jobs[j].pc = "running" /\ jobs'[j].pc = "replied"

\* C26 (as claimed): a session's memory changes only through the append of a
\* completed job of that session or through that session's own /clear
\* command, a message that is a command and starts no job; nothing else
\* changes it.
C26_OnlyAppendOrClear ==
  [][\A h \in Handles :
       stores'[h] # stores[h] =>
         \/ \E j \in JobIds : Returns(j) /\ jobs[j].store = h
         \/ /\ out'.kind = "cleared"
            /\ sessions'[SessionKey(out'.to)] = h
            /\ stores'[h] = <<>>
            /\ jobs' = jobs]_vars

\* ------------------------------------------------------------ tool timeouts
\* C27 (as claimed): a tool call whose page action times out resolves to an
\* error string that the loop observes as the call's tool-result message; the
\* job is not cancelled and goes on to the next call of the batch or to Think.
C27_TimeoutIsObserved ==
  [][\A j \in JobIds :
       ToolFails(j, "action") =>
         /\ jobs'[j].pc = "running"
         /\ LastOf(jobs'[j].messages).role = "tool"
         /\ LastOf(jobs'[j].messages).text = "error"
         /\ jobs'[j].loop = "think" \/ jobs'[j].pending > 0]_vars

\* ------------------------------------------------- ordering between tasks
\* C28 (as claimed): the messages a memory holds appear in the order in which
\* their tasks were submitted (jobs are numbered as their tasks arrive): no
\* message of a later task precedes one of an earlier task.
C28_StoredInSubmissionOrder ==
  \A h \in Handles :
    \A i, k \in 1..Len(stores[h]) :
      i < k => stores[h][i].job <= stores[h][k].job

\* ------------------------------------------------- clear and jobs in flight
\* job j's memory was cleared while j was in flight: j read messages from it
\* when it entered runJob, and only a clear empties a memory that holds some
ClearedInFlight(j) ==
  Running(j) /\ jobs[j].previousCount > 0 /\ stores[jobs[j].store] = <<>>

\* C29 (as claimed): a job that was in flight when its memory was cleared does
\* not write into the cleared memory: when it returns, the memory stays empty.
C29_ClearNotUndone ==
  [][\A j \in JobIds :
       (ClearedInFlight(j) /\ Returns(j)) =>
         stores'[jobs[j].store] = <<>>]_vars

\* ------------------------------------------------- error report and append
\* C30 (as claimed): a task whose handler reported an error to the user has
\* appended nothing to the memory, and a task that appended its messages has
\* not been reported to the user as failed.
C30_ErrorMeansNoAppend ==
  \A j \in JobIds : jobs[j].errors > 0 => jobs[j].appends = 0

\* ------------------------------------------------- the outcome of a chat task
\* the message handler accepted job j's message as a task
Accepted(j) == mode = "telegram" /\ jobs[j].pc # "idle"

\* what the handler has sent for job j: its answer, and its error messages
Outcomes(j) == (IF jobs[j].pc = "replied" THEN 1 ELSE 0) + jobs[j].errors

C32_RunnersAgree ==
  both.done =>
    /\ both.cli = both.tg
    /\ both.thrown => both.cli.thrown /\ both.cli.memory = both.memory
    /\ ~both.thrown => ~both.cli.thrown

\* both runners appended to a memory that was full, evicted its oldest
\* messages and returned the text of the last message
C32_Witness ==
  /\ both.done
  /\ Len(both.memory) = MemoryCapacity
  /\ both.tg.added
  /\ both.tg.memory # both.memory
  /\ Len(both.tg.memory) = MemoryCapacity
  /\ both.tg.returned = "done"

\* ------------------------------------------------------------ non-interference
\* C33 (as claimed): the messages produced for an identity's jobs depend only
\* on that identity's own messages and planner responses: no tool result of a
\* job tells of a page that another identity's tool call acted on.
C33_NoForeignPage ==
  \A j \in JobIds :
    \A i \in 1..Len(jobs[j].messages) :
      (jobs[j].messages[i].job = j /\ jobs[j].messages[i].role = "tool") =>
        jobs[j].messages[i].text # "foreign"

\* ------------------------------------------------- one handler for a message
\* the number of handlers that act on a message with this text
Acting(text) ==
  Cardinality({h \in DOMAIN Handlers(text) : Handlers(text)[h]})

\* C34 (as claimed): in chat mode each incoming message is handled by exactly
\* one handler: a text is a task, or gets the prompt for a text, or runs one
\* command handler, never two of these and never none.
C34_OneHandlerPerMessage ==
  [][\A chat \in Chats, text \in TgTexts, send \in Sends :
       TgText(chat, text, send) => Acting(text) = 1]_vars

\* --------------------------------------------------- sessions keyed by chat id
\* C35: chat sessions are keyed by chat id, for tasks, /clear and /memory
\* alike: two jobs run on the same store exactly when their messages came from
\* the same chat; a /clear empties the store of the chat it came from and no
\* other; a /memory reports the count of the store of the chat it came from.
C35_KeyedByChatId ==
  /\ [](mode = "telegram" =>
          \A a, b \in JobIds :
            (Started(a) /\ Started(b)) =>
              /\ jobs[a].store = sessions[jobs[a].chat]
              /\ jobs[a].store = jobs[b].store <=> jobs[a].chat = jobs[b].chat)
  /\ [][\A chat \in Chats, text \in TgTexts, send \in Sends :
          TgText(chat, text, send) =>
            /\ Handlers(text).clear =>
                 /\ sessions'[chat] # 0
                 /\ stores'[sessions'[chat]] = <<>>
                 /\ \A h \in DOMAIN stores :
                      h # sessions'[chat] => stores'[h] = stores[h]
            /\ Handlers(text).memory =>
                 /\ sessions'[chat] # 0
                 /\ out'.to = chat
                 /\ out'.n = Len(stores'[sessions'[chat]])]_vars

\* jobs of two chats run on their stores, one of them holds messages, and a
\* /memory of a chat was answered
C35_Witness ==
  /\ mode = "telegram"
  /\ out.kind = "count"
  /\ \E a, b \in JobIds :
       /\ Started(a) /\ Started(b) /\ jobs[a].chat # jobs[b].chat
       /\ stores[jobs[a].store] # <<>>

\* ------------------------------------------------- frame and select handlers
\* frameIndex is a number (z.number()), an integer or not: the model counts it
\* in halves, so frameIndex 3 stands for 1.5 and frames.length n for 2 * n

\* mutation: an index equal to the number of frames passes the test
InvalidFrameIndexPastEnd(frameIndex, frames) ==
  frameIndex < 0 \/ frameIndex > 2 * frames

\* frameIndex < 0 || frameIndex >= frames.length
InvalidFrameIndex(frameIndex, frames) ==
  frameIndex < 0 \/ frameIndex >= 2 * frames

\* frames[frameIndex]: an array holds elements at 0 .. length - 1 and yields
\* undefined for any other number
FrameAt(frameIndex, frames) ==
  IF frameIndex % 2 = 0 /\ 0 <= frameIndex /\ frameIndex < 2 * frames
    THEN "frame"
    ELSE "undefined"

InvalidFrameText == "ERROR: Invalid frame index"

\* the handler of browser_frame_click. `acted` names the call made on a frame
\* or on the page; a call on undefined throws a TypeError before anything is
\* done, and frame.click rejects when no element answers to the selector
FrameClickTool(frameIndex, frames, element) ==
  IF InvalidFrameIndex(frameIndex, frames)
    THEN [done |-> TRUE, text |-> InvalidFrameText, acted |-> "none", thrown |-> FALSE]
  ELSE IF FrameAt(frameIndex, frames) = "undefined"
    THEN [done |-> TRUE, text |-> "", acted |-> "none", thrown |-> TRUE]
  ELSE IF element = "missing"
    THEN [done |-> TRUE, text |-> "", acted |-> "click", thrown |-> TRUE]
  ELSE [done |-> TRUE, text |-> "Clicked", acted |-> "click", thrown |-> FALSE]

\* the handler of browser_frame_extract_text; frame.$ resolves with null when
\* no element answers to the selector
FrameExtractTextTool(frameIndex, frames, element) ==
  IF InvalidFrameIndex(frameIndex, frames)
    THEN [done |-> TRUE, text |-> InvalidFrameText, acted |-> "none", thrown |-> FALSE]
  ELSE IF FrameAt(frameIndex, frames) = "undefined"
    THEN [done |-> TRUE, text |-> "", acted |-> "none", thrown |-> TRUE]
  ELSE IF element = "missing"
    THEN [done |-> TRUE, text |-> "No element found", acted |-> "extract", thrown |-> FALSE]
  ELSE [done |-> TRUE, text |-> "Frame content", acted |-> "extract", thrown |-> FALSE]

\* an optional string of a tool's input: no string, the empty string, or a
\* string with characters
Optional(s) == {{}, {""}, {s}}

\* if (x), for an optional string: undefined and "" are falsy
Truthy(x) == x # {} /\ x # {""}

ProvideText == "ERROR: Provide either value or label"

\* the handler of browser_select_option; page.selectOption rejects when no
\* element answers to the selector
SelectOptionTool(value, label, element) ==
  IF Truthy(value)
    THEN IF element = "missing"
           THEN [done |-> TRUE, text |-> "", acted |-> "value", thrown |-> TRUE]
           ELSE [done |-> TRUE, text |-> "Selected option", acted |-> "value",
                 thrown |-> FALSE]
  ELSE IF Truthy(label)
    THEN IF element = "missing"
           THEN [done |-> TRUE, text |-> "", acted |-> "label", thrown |-> TRUE]
           ELSE [done |-> TRUE, text |-> "Selected option", acted |-> "label",
                 thrown |-> FALSE]
  ELSE [done |-> TRUE, text |-> ProvideText, acted |-> "none", thrown |-> FALSE]

\* the inputs the schemas of the three tools admit, and the pages they meet: a
\* page has its main frame at least
FrameCalls ==
  [tool : {"browser_frame_click", "browser_frame_extract_text"},
   frameIndex : (-2)..(2 * MaxFrames + 1), frames : 1..MaxFrames,
   value : {{}}, label : {{}}, element : {"found", "missing"}]

SelectCalls ==
  [tool : {"browser_select_option"}, frameIndex : {0}, frames : {1},
   value : Optional("v"), label : Optional("l"), element : {"found", "missing"}]

BrowserToolInit ==
  /\ apiKey = TRUE
  /\ proc = "running"
  /\ mode = "cli"
  /\ sessions = [i \in Ids |-> 0]
  /\ nextStore = 1
  /\ line = [n |-> 0, text |-> <<>>]
  /\ out = [to |-> 0, kind |-> "none", n |-> 0, prev |-> "none"]
  /\ stores = [h \in Handles |-> <<>>]
  /\ jobs = [j \in JobIds |-> IdleJob]
  /\ nextJob = 1
  /\ inputs = 0
  /\ history = [h \in Handles |-> <<>>]
  /\ lastAdd = [h \in Handles |-> 0]
  /\ page = 0
  /\ response = <<>>
  /\ sent = <<>>
  /\ resolved = <<>>
  /\ returned = NotReturned
  /\ both = NotRun
  /\ call \in FrameCalls \cup SelectCalls
  /\ ret = NotCalled

FrameClick ==
  /\ ~ret.done
  /\ call.tool = "browser_frame_click"
  /\ ret' = FrameClickTool(call.frameIndex, call.frames, call.element)
  /\ UNCHANGED <<mainVars, response, sent, resolved, returned, both, call>>

FrameExtractText ==
  /\ ~ret.done
  /\ call.tool = "browser_frame_extract_text"
  /\ ret' = FrameExtractTextTool(call.frameIndex, call.frames, call.element)
  /\ UNCHANGED <<mainVars, response, sent, resolved, returned, both, call>>

SelectOption ==
  /\ ~ret.done
  /\ call.tool = "browser_select_option"
  /\ ret' = SelectOptionTool(call.value, call.label, call.element)
  /\ UNCHANGED <<mainVars, response, sent, resolved, returned, both, call>>

BrowserToolNext == FrameClick \/ FrameExtractText \/ SelectOption

BrowserToolSpec == BrowserToolInit /\ [][BrowserToolNext]_vars

\* the index lies within the frames of the page
InFrames(c) == 0 <= c.frameIndex /\ c.frameIndex < 2 * c.frames

FrameTools == {"browser_frame_click", "browser_frame_extract_text"}

\* C36: the frame tools act only for an index i with 0 <= i < number of
\* frames; for any other index they return the invalid-frame-index error and
\* make no click and no extraction.
C36_FrameIndexChecked ==
  (ret.done /\ call.tool \in FrameTools) =>
    /\ ret.acted # "none" => InFrames(call)
    /\ ~InFrames(call) =>
         /\ ret.text = InvalidFrameText
         /\ ret.acted = "none"
         /\ ~ret.thrown

\* a click was asked for in the frame just past the last one and refused
C36_Witness ==
  /\ ret.done
  /\ call.tool = "browser_frame_click"
  /\ call.frameIndex = 2 * call.frames
  /\ call.element = "found"
  /\ ret.text = InvalidFrameText

\* C37 (as claimed): browser_select_option selects by value whenever a value
\* is supplied, by label only when no value is supplied, and returns the
\* provide-value-or-label error, selecting nothing, when neither is supplied.
C37_ValueBeforeLabel ==
  (ret.done /\ call.tool = "browser_select_option") =>
    /\ call.value # {} => ret.acted = "value"
    /\ ret.acted = "label" => call.value = {}
    /\ (call.value = {} /\ call.label = {}) =>
         (ret.text = ProvideText /\ ret.acted = "none")

====
